---- MODULE Spec2Model ----
(***************************************************************************)
(* FIFO page-replacement simulator: the FIFOAlgorithm engine and the       *)
(* AnimationEngine scheduler that drives it.                               *)
(*                                                                         *)
(* JavaScript arrays are modelled as sequences; JavaScript's 0-based       *)
(* index i is position i + 1 of the sequence (operator At).  null is the   *)
(* value NULL, which no page number equals (page numbers are >= 0).        *)
(***************************************************************************)
EXTENDS Integers, Sequences, FiniteSets, TLC

\* ------------------------------------------------------------------ bounds
MaxFrames == 3
MaxPage == 3
MaxLen == 3
MaxLenForward == 5
MaxHistory == 5
MaxDirectCalls == 3

\* --------------------------------------------------------------- constants
NULL == -1
DefaultSpeed == 1000

VARIABLES
    frameCount,      \* FIFOAlgorithm.frameCount
    pageReferences,  \* FIFOAlgorithm.pageReferences
    frames,          \* FIFOAlgorithm.frames
    fifoQueue,       \* FIFOAlgorithm.fifoQueue
    currentStep,     \* FIFOAlgorithm.currentStep
    faultCount,      \* FIFOAlgorithm.faultCount
    stepHistory,     \* FIFOAlgorithm.stepHistory
    lastCall,        \* the most recent call on the engine and how it ended
    throwingMethods, \* the methods of AnimationEngine.algorithm that throw
    isPlaying,       \* AnimationEngine.isPlaying
    animStep,        \* AnimationEngine.currentStep
    speed,           \* AnimationEngine.speed
    animationTimer,  \* AnimationEngine.animationTimer: a timer id, or NULL
    pendingTimers,   \* the ids of the setTimeout callbacks still to fire
    animHistory,     \* AnimationEngine.stepHistory
    lastAnimCall,    \* the most recent call on the scheduler and its result
    driver           \* the position of the caller that drives a scripted run

engineVars == <<frames, fifoQueue, currentStep, faultCount, stepHistory>>
inputVars == <<frameCount, pageReferences, throwingMethods>>
schedVars == <<isPlaying, animStep, speed, animationTimer, pendingTimers,
               animHistory, lastAnimCall>>
vars == <<frameCount, pageReferences, frames, fifoQueue, currentStep,
          faultCount, stepHistory, lastCall, throwingMethods, isPlaying,
          animStep, speed, animationTimer, pendingTimers, animHistory,
          lastAnimCall, driver>>

\* ----------------------------------------------------------------- helpers
At(s, i) == s[i + 1]

Range(s) == {s[i] : i \in 1..Len(s)}

SeqsUpTo(S, n) == UNION {[1..k -> S] : k \in 1..n}

\* ---------------------------------------------------- FIFOAlgorithm (engine)

\* A hit test that looks at frame 0 alone.
isPageHitFirstFrame(fr, pageNumber) == At(fr, 0) = pageNumber

\* frames.includes(pageNumber)
isPageHit(fr, pageNumber) == \E i \in 0..(Len(fr) - 1) : At(fr, i) = pageNumber

\* A search from the last frame down: highest empty index, or -1.
findLastEmptyFrameIndex(fr) ==
    IF \E i \in 0..(Len(fr) - 1) : At(fr, i) = NULL
    THEN CHOOSE i \in 0..(Len(fr) - 1) :
            /\ At(fr, i) = NULL
            /\ \A j \in (i + 1)..(Len(fr) - 1) : At(fr, j) # NULL
    ELSE -1

\* frames.findIndex(frame => frame === null): lowest empty index, or -1
findEmptyFrameIndex(fr) ==
    IF \E i \in 0..(Len(fr) - 1) : At(fr, i) = NULL
    THEN CHOOSE i \in 0..(Len(fr) - 1) :
            /\ At(fr, i) = NULL
            /\ \A j \in 0..(i - 1) : At(fr, j) # NULL
    ELSE -1

\* Math.round((faultCount / currentStep) * 100 * 100) / 100, kept in
\* hundredths of a percent (3333 is 33.33); Math.round rounds half up.
calculateFaultRate(fc, cs) ==
    IF cs = 0 THEN 0 ELSE (2 * fc * 10000 + cs) \div (2 * cs)

\* getOldestFrameIndex that answers 0 for an empty queue.
getOldestFrameIndexZero(q) == IF Len(q) > 0 THEN Head(q) ELSE 0

\* fifoQueue.length > 0 ? fifoQueue[0] : -1
getOldestFrameIndex(q) == IF Len(q) > 0 THEN Head(q) ELSE -1

\* The guard of processPageReference: the call throws for these indices.
processThrows(stepIndex) == stepIndex < 0 \/ stepIndex >= Len(pageReferences)

\* The guard of restoreToStep: the call throws for these indices.
restoreThrows(stepIndex) == stepIndex < 0 \/ stepIndex >= Len(stepHistory)

\* fifoQueue.pop() in place of fifoQueue.shift(): the newest index is taken.
popQueue(q) == [victim |-> q[Len(q)], rest |-> SubSeq(q, 1, Len(q) - 1)]

\* fifoQueue.shift(): the head is removed and returned.
shiftQueue(q) == [victim |-> Head(q), rest |-> Tail(q)]

\* A counter of consecutive faults in place of the cumulative one.
resetFaultCount(fc, isHit) == IF isHit THEN 0 ELSE fc + 1

\* if (!isHit) { this.faultCount++; ... }
nextFaultCount(fc, isHit) == IF isHit THEN fc ELSE fc + 1

\* processPageReference that records the frame it wrote as replacedFrameIndex,
\* also when that frame was empty.
processOutcomeRecordsFilledFrame(fr, q, fc, stepIndex) ==
    LET pageNumber == At(pageReferences, stepIndex)
        isHit == isPageHit(fr, pageNumber)
        emptyFrameIndex == findEmptyFrameIndex(fr)
        replacedFrameIndex ==
            IF isHit THEN NULL
            ELSE IF emptyFrameIndex = -1 THEN shiftQueue(q).victim ELSE emptyFrameIndex
        replacedPage ==
            IF replacedFrameIndex # NULL THEN At(fr, replacedFrameIndex) ELSE NULL
        newFrames ==
            IF isHit THEN fr
            ELSE IF emptyFrameIndex # -1
                 THEN [fr EXCEPT ![emptyFrameIndex + 1] = pageNumber]
                 ELSE [fr EXCEPT ![replacedFrameIndex + 1] = pageNumber]
        newQueue ==
            IF isHit THEN q
            ELSE IF emptyFrameIndex # -1
                 THEN Append(q, emptyFrameIndex)
                 ELSE Append(shiftQueue(q).rest, replacedFrameIndex)
        newFaultCount == nextFaultCount(fc, isHit)
        newStep == stepIndex + 1
    IN  [frames |-> newFrames,
         fifoQueue |-> newQueue,
         faultCount |-> newFaultCount,
         currentStep |-> newStep,
         stepResult |->
            [stepIndex |-> stepIndex,
             pageNumber |-> pageNumber,
             isHit |-> isHit,
             replacedFrameIndex |-> replacedFrameIndex,
             replacedPage |-> replacedPage,
             frameState |-> newFrames,
             faultCount |-> newFaultCount,
             faultRate |-> calculateFaultRate(newFaultCount, newStep)]]

\* processPageReference that reads replacedPage after it has overwritten the
\* frame: the page recorded as replaced is the page just loaded.
processOutcomeReadsAfterWrite(fr, q, fc, stepIndex) ==
    LET pageNumber == At(pageReferences, stepIndex)
        isHit == isPageHit(fr, pageNumber)
        emptyFrameIndex == findEmptyFrameIndex(fr)
        replacedFrameIndex ==
            IF ~isHit /\ emptyFrameIndex = -1 THEN shiftQueue(q).victim ELSE NULL
        replacedPage == IF replacedFrameIndex # NULL THEN pageNumber ELSE NULL
        newFrames ==
            IF isHit THEN fr
            ELSE IF emptyFrameIndex # -1
                 THEN [fr EXCEPT ![emptyFrameIndex + 1] = pageNumber]
                 ELSE [fr EXCEPT ![replacedFrameIndex + 1] = pageNumber]
        newQueue ==
            IF isHit THEN q
            ELSE IF emptyFrameIndex # -1
                 THEN Append(q, emptyFrameIndex)
                 ELSE Append(shiftQueue(q).rest, replacedFrameIndex)
        newFaultCount == nextFaultCount(fc, isHit)
        newStep == stepIndex + 1
    IN  [frames |-> newFrames,
         fifoQueue |-> newQueue,
         faultCount |-> newFaultCount,
         currentStep |-> newStep,
         stepResult |->
            [stepIndex |-> stepIndex,
             pageNumber |-> pageNumber,
             isHit |-> isHit,
             replacedFrameIndex |-> replacedFrameIndex,
             replacedPage |-> replacedPage,
             frameState |-> newFrames,
             faultCount |-> newFaultCount,
             faultRate |-> calculateFaultRate(newFaultCount, newStep)]]

\* The outcome of one processPageReference(stepIndex) that does not throw:
\* the new frames, queue, fault count and the StepResult it builds.
processOutcome(fr, q, fc, stepIndex) ==
    LET pageNumber == At(pageReferences, stepIndex)
        isHit == isPageHit(fr, pageNumber)
        emptyFrameIndex == findEmptyFrameIndex(fr)
        replacedFrameIndex ==
            IF ~isHit /\ emptyFrameIndex = -1 THEN shiftQueue(q).victim ELSE NULL
        replacedPage ==
            IF replacedFrameIndex # NULL THEN At(fr, replacedFrameIndex) ELSE NULL
        newFrames ==
            IF isHit THEN fr
            ELSE IF emptyFrameIndex # -1
                 THEN [fr EXCEPT ![emptyFrameIndex + 1] = pageNumber]
                 ELSE [fr EXCEPT ![replacedFrameIndex + 1] = pageNumber]
        newQueue ==
            IF isHit THEN q
            ELSE IF emptyFrameIndex # -1
                 THEN Append(q, emptyFrameIndex)
                 ELSE Append(shiftQueue(q).rest, replacedFrameIndex)
        newFaultCount == nextFaultCount(fc, isHit)
        newStep == stepIndex + 1
    IN  [frames |-> newFrames,
         fifoQueue |-> newQueue,
         faultCount |-> newFaultCount,
         currentStep |-> newStep,
         stepResult |->
            [stepIndex |-> stepIndex,
             pageNumber |-> pageNumber,
             isHit |-> isHit,
             replacedFrameIndex |-> replacedFrameIndex,
             replacedPage |-> replacedPage,
             frameState |-> newFrames,
             faultCount |-> newFaultCount,
             faultRate |-> calculateFaultRate(newFaultCount, newStep)]]

\* processPageReference(stepIndex), for an index that does not throw: the
\* effect on the engine's fields.
processPageReference(stepIndex) ==
    LET o == processOutcome(frames, fifoQueue, faultCount, stepIndex)
    IN  /\ frames' = o.frames
        /\ fifoQueue' = o.fifoQueue
        /\ faultCount' = o.faultCount
        /\ currentStep' = o.currentStep
        /\ stepHistory' = Append(stepHistory, o.stepResult)

\* The rebuilding loop without its null test: every index is pushed.
rebuildAllIndices(fr) == [i \in 1..Len(fr) |-> i - 1]

\* The loop of restoreToStep that rebuilds the queue: every occupied index,
\* in index order.
rebuildFifoQueue(fr) ==
    SelectSeq([i \in 1..Len(fr) |-> i - 1], LAMBDA i : At(fr, i) # NULL)

\* A restoreToStep that leaves faultCount as it is.
restoreToStepKeepsFaultCount(stepIndex) ==
    LET stepResult == At(stepHistory, stepIndex)
    IN  /\ frames' = stepResult.frameState
        /\ faultCount' = faultCount
        /\ currentStep' = stepResult.stepIndex + 1
        /\ fifoQueue' = rebuildFifoQueue(stepResult.frameState)
        /\ stepHistory' = stepHistory

\* A restoreToStep that also cuts the history back to the restored step.
restoreToStepTruncating(stepIndex) ==
    LET stepResult == At(stepHistory, stepIndex)
    IN  /\ frames' = stepResult.frameState
        /\ faultCount' = stepResult.faultCount
        /\ currentStep' = stepResult.stepIndex + 1
        /\ fifoQueue' = rebuildFifoQueue(stepResult.frameState)
        /\ stepHistory' = SubSeq(stepHistory, 1, stepIndex + 1)

\* restoreToStep(stepIndex), for an index that does not throw.
restoreToStep(stepIndex) ==
    LET stepResult == At(stepHistory, stepIndex)
    IN  /\ frames' = stepResult.frameState
        /\ faultCount' = stepResult.faultCount
        /\ currentStep' = stepResult.stepIndex + 1
        /\ fifoQueue' = rebuildFifoQueue(stepResult.frameState)
        /\ stepHistory' = stepHistory

\* ----------------------------------------------------------------- inputs

\* The engine compares page numbers for equality only, so the runs that take
\* many calls are explored for one reference sequence of each shape: page 0
\* comes first and a page v > 0 is first used after page v - 1.
FirstUseOrder(refs) ==
    \A i \in 1..Len(refs) :
        refs[i] > 0 => \E j \in 1..(i - 1) : refs[j] = refs[i] - 1

\* The inputs the constructor accepts, within the bounds: a positive frame
\* count and a non-empty sequence of non-negative page numbers.
BoundedInputs ==
    {<<fcnt, refs>> : fcnt \in 1..MaxFrames,
                      refs \in {r \in SeqsUpTo(0..MaxPage, MaxLen) : FirstUseOrder(r)}}

\* The inputs of the forward runs: every reference sequence within the bounds.
ForwardInputs ==
    {<<fcnt, refs>> : fcnt \in 1..MaxFrames, refs \in SeqsUpTo(0..MaxPage, MaxLenForward)}

\* The scenarios of testAlgorithmCorrectnessScenarios and the README.
Scenarios ==
    { <<3, <<1, 2, 3, 4, 1, 2, 5, 1, 2, 3, 4, 5>>>>,
      <<2, <<1, 2, 3, 4, 5>>>>,
      <<3, <<1, 1, 1, 1, 1>>>>,
      <<2, <<1, 2, 1, 2, 1, 2>>>>,
      <<2, <<1, 2, 3, 1, 2, 3>>>> }

NoCall == [op |-> "new", arg |-> NULL, ok |-> TRUE]

NoAnimCall == [op |-> "new", result |-> TRUE]

Idle == [pc |-> "idle", k |-> NULL, end |-> NULL, next |-> NULL]

\* The FIFOAlgorithm constructor: every frame empty, empty queue, nothing
\* processed.
EngineConstructed(input) ==
    /\ frameCount = input[1]
    /\ pageReferences = input[2]
    /\ frames = [i \in 1..input[1] |-> NULL]
    /\ fifoQueue = <<>>
    /\ currentStep = 0
    /\ faultCount = 0
    /\ stepHistory = <<>>
    /\ lastCall = NoCall

\* The AnimationEngine constructor.
AnimationConstructed ==
    /\ isPlaying = FALSE
    /\ animStep = 0
    /\ speed = DefaultSpeed
    /\ animationTimer = NULL
    /\ pendingTimers = {}
    /\ animHistory = <<>>
    /\ lastAnimCall = NoAnimCall

\* The algorithm handed to the scheduler is a FIFOAlgorithm: its methods
\* throw for the indices their guards reject, and for nothing else.
WorkingAlgorithm == throwingMethods = {}

\* initializeSimulation: a fresh engine and a fresh scheduler on it.
Constructed(input) ==
    /\ EngineConstructed(input)
    /\ WorkingAlgorithm
    /\ AnimationConstructed
    /\ driver = Idle

\* ------------------------------------------- new FIFOAlgorithm(...)
\* The constructor is called with any JavaScript values.  A value is kept as
\* its kind and a number: an integer val, the fraction val + 0.5, or a value
\* that is no number at all.  The second argument is an array of values or
\* something that is not an array.

JsValues(ints) ==
    {[kind |-> "integer", val |-> n] : n \in ints}
        \cup {[kind |-> "fraction", val |-> 1], [kind |-> "other", val |-> 0]}

FrameCountArgs == JsValues(-1..MaxFrames)

PageReferencesArgs ==
    {[isArray |-> TRUE, items |-> <<>>], [isArray |-> FALSE, items |-> <<>>]}
        \cup {[isArray |-> TRUE, items |-> r] : r \in SeqsUpTo(JsValues(-1..1), MaxLen)}

\* Number.isInteger(v)
NumberIsInteger(v) == v.kind = "integer"

\* The first test with < in place of <=: a frame count of 0 passes.
frameCountAcceptsZero(fcArg) == ~NumberIsInteger(fcArg) \/ fcArg.val < 0

\* !Number.isInteger(frameCount) || frameCount <= 0
frameCountRejected(fcArg) == ~NumberIsInteger(fcArg) \/ fcArg.val <= 0

\* !Array.isArray(pageReferences) || pageReferences.length === 0
pageReferencesRejected(refsArg) == ~refsArg.isArray \/ Len(refsArg.items) = 0

\* The validation loop from index i on: the index at which it throws, or
\* NULL when it runs to the end.
RECURSIVE firstRejectedReference(_, _)
firstRejectedReference(items, i) ==
    IF i >= Len(items)
    THEN NULL
    ELSE IF ~NumberIsInteger(At(items, i)) \/ At(items, i).val < 0
         THEN i
         ELSE firstRejectedReference(items, i + 1)

\* The error the constructor throws for these arguments and the index its
\* message names, or "none".
constructorError(fcArg, refsArg) ==
    IF frameCountRejected(fcArg)
    THEN [error |-> "Frame count must be a positive integer", index |-> NULL]
    ELSE IF pageReferencesRejected(refsArg)
         THEN [error |-> "Page references must be a non-empty array", index |-> NULL]
         ELSE IF firstRejectedReference(refsArg.items, 0) # NULL
              THEN [error |-> "Page reference at index must be a non-negative integer",
                    index |-> firstRejectedReference(refsArg.items, 0)]
              ELSE [error |-> "none", index |-> NULL]

\* No FIFOAlgorithm exists: none of its fields holds anything.
NoEngine ==
    /\ frameCount = NULL
    /\ pageReferences = <<>>
    /\ frames = <<>>
    /\ fifoQueue = <<>>
    /\ currentStep = 0
    /\ faultCount = 0
    /\ stepHistory = <<>>

\* No AnimationEngine exists: none of its fields holds anything.
NoScheduler ==
    /\ isPlaying = FALSE
    /\ animStep = NULL
    /\ speed = NULL
    /\ animationTimer = NULL
    /\ pendingTimers = {}
    /\ animHistory = <<>>
    /\ lastAnimCall = [op |-> "none", result |-> FALSE]

InitConstruct ==
    /\ NoEngine
    /\ lastCall = NoCall
    /\ WorkingAlgorithm
    /\ NoScheduler
    /\ \E fcArg \in FrameCountArgs, refsArg \in PageReferencesArgs :
          driver = [pc |-> "new", frameCount |-> fcArg, pageReferences |-> refsArg]

\* new FIFOAlgorithm(frameCount, pageReferences)
Construct ==
    /\ driver.pc = "new"
    /\ LET e == constructorError(driver.frameCount, driver.pageReferences)
       IN  IF e.error # "none"
           THEN /\ UNCHANGED <<frameCount, pageReferences, engineVars>>
                /\ lastCall' = [op |-> "new", arg |-> e.index, ok |-> FALSE,
                                error |-> e.error]
           ELSE /\ frameCount' = driver.frameCount.val
                /\ pageReferences' =
                      [i \in 1..Len(driver.pageReferences.items) |->
                          driver.pageReferences.items[i].val]
                /\ frames' = [i \in 1..driver.frameCount.val |-> NULL]
                /\ fifoQueue' = <<>>
                /\ currentStep' = 0
                /\ faultCount' = 0
                /\ stepHistory' = <<>>
                /\ lastCall' = [op |-> "new", arg |-> NULL, ok |-> TRUE, error |-> "none"]
    /\ driver' = [driver EXCEPT !.pc = "done"]
    /\ UNCHANGED <<throwingMethods, schedVars>>

\* new AnimationEngine(null, fifoAlgorithm), on the engine just constructed.
ConstructScheduler ==
    /\ driver.pc = "done"
    /\ lastCall.ok
    /\ isPlaying' = FALSE
    /\ animStep' = 0
    /\ speed' = DefaultSpeed
    /\ animationTimer' = NULL
    /\ pendingTimers' = {}
    /\ animHistory' = <<>>
    /\ lastAnimCall' = NoAnimCall
    /\ driver' = [driver EXCEPT !.pc = "installed"]
    /\ UNCHANGED <<inputVars, engineVars, lastCall>>

NextConstruct == Construct \/ ConstructScheduler

SpecConstruct == InitConstruct /\ [][NextConstruct]_vars

\* ------------------------------------ forward run on a fresh engine
\* for (let i = 0; i < pageReferences.length; i++) processPageReference(i)

InitForward == \E input \in ForwardInputs \cup Scenarios : Constructed(input)

ProcessNext ==
    /\ currentStep < Len(pageReferences)
    /\ processPageReference(currentStep)
    /\ lastCall' = [op |-> "processPageReference", arg |-> currentStep, ok |-> TRUE]
    /\ UNCHANGED <<inputVars, schedVars, driver>>

NextForward == ProcessNext

SpecForward == InitForward /\ [][NextForward]_vars

\* ------------------------------------------- direct calls on the engine
\* Any caller holding the engine may call processPageReference and
\* restoreToStep with any index, in any order; a call that throws leaves the
\* engine as it was.

InitEngine == \E input \in BoundedInputs : Constructed(input)

\* processPageReference that assigns currentStep before it tests the index.
CallProcessPageReferenceLateCheck ==
    \E stepIndex \in -1..Len(pageReferences) :
        /\ IF processThrows(stepIndex)
           THEN /\ currentStep' = stepIndex + 1
                /\ UNCHANGED <<frames, fifoQueue, faultCount, stepHistory>>
                /\ lastCall' = [op |-> "processPageReference", arg |-> stepIndex, ok |-> FALSE]
           ELSE /\ Len(stepHistory) < MaxDirectCalls
                /\ processPageReference(stepIndex)
                /\ lastCall' = [op |-> "processPageReference", arg |-> stepIndex, ok |-> TRUE]
        /\ UNCHANGED <<inputVars, schedVars, driver>>

CallProcessPageReference ==
    \E stepIndex \in -1..Len(pageReferences) :
        /\ IF processThrows(stepIndex)
           THEN /\ UNCHANGED engineVars
                /\ lastCall' = [op |-> "processPageReference", arg |-> stepIndex, ok |-> FALSE]
           ELSE /\ Len(stepHistory) < MaxDirectCalls
                /\ processPageReference(stepIndex)
                /\ lastCall' = [op |-> "processPageReference", arg |-> stepIndex, ok |-> TRUE]
        /\ UNCHANGED <<inputVars, schedVars, driver>>

\* restoreToStep that empties the engine when the index is out of range.
CallRestoreToStepResetting ==
    \E stepIndex \in -1..Len(stepHistory) :
        /\ IF restoreThrows(stepIndex)
           THEN /\ frames' = [i \in 1..frameCount |-> NULL]
                /\ fifoQueue' = <<>>
                /\ faultCount' = 0
                /\ currentStep' = 0
                /\ UNCHANGED stepHistory
                /\ lastCall' = [op |-> "restoreToStep", arg |-> stepIndex, ok |-> FALSE]
           ELSE /\ restoreToStep(stepIndex)
                /\ lastCall' = [op |-> "restoreToStep", arg |-> stepIndex, ok |-> TRUE]
        /\ UNCHANGED <<inputVars, schedVars, driver>>

CallRestoreToStep ==
    \E stepIndex \in -1..Len(stepHistory) :
        /\ IF restoreThrows(stepIndex)
           THEN /\ UNCHANGED engineVars
                /\ lastCall' = [op |-> "restoreToStep", arg |-> stepIndex, ok |-> FALSE]
           ELSE /\ restoreToStep(stepIndex)
                /\ lastCall' = [op |-> "restoreToStep", arg |-> stepIndex, ok |-> TRUE]
        /\ UNCHANGED <<inputVars, schedVars, driver>>

NextEngine == CallProcessPageReference \/ CallRestoreToStep

SpecEngine == InitEngine /\ [][NextEngine]_vars

\* ------------------------- rewind and replay on an engine run forward
\* A caller runs processPageReference(0..end) on a fresh engine, calls
\* restoreToStep(k) for some k <= end, then processPageReference(k+1..end).

RoundTripInputs ==
    {<<fcnt, refs>> : fcnt \in 1..MaxFrames,
                      refs \in {r \in SeqsUpTo(0..MaxPage, MaxLenForward) : FirstUseOrder(r)}}

InitRoundTrip ==
    /\ \E input \in RoundTripInputs : EngineConstructed(input)
    /\ WorkingAlgorithm
    /\ AnimationConstructed
    /\ driver = [pc |-> "forward", k |-> NULL, end |-> NULL, next |-> 0]

RoundTripForward ==
    /\ driver.pc = "forward"
    /\ driver.next < Len(pageReferences)
    /\ processPageReference(driver.next)
    /\ lastCall' = [op |-> "processPageReference", arg |-> driver.next, ok |-> TRUE]
    /\ driver' = [driver EXCEPT !.next = driver.next + 1]
    /\ UNCHANGED <<inputVars, schedVars>>

RoundTripRestore ==
    /\ driver.pc = "forward"
    /\ driver.next >= 1
    /\ \E k \in 0..(driver.next - 1) :
          /\ ~restoreThrows(k)
          /\ restoreToStep(k)
          /\ lastCall' = [op |-> "restoreToStep", arg |-> k, ok |-> TRUE]
          /\ driver' = [pc |-> "replay", k |-> k, end |-> driver.next - 1, next |-> k + 1]
    /\ UNCHANGED <<inputVars, schedVars>>

RoundTripReplay ==
    /\ driver.pc = "replay"
    /\ driver.next <= driver.end
    /\ processPageReference(driver.next)
    /\ lastCall' = [op |-> "processPageReference", arg |-> driver.next, ok |-> TRUE]
    /\ driver' = [driver EXCEPT !.next = driver.next + 1]
    /\ UNCHANGED <<inputVars, schedVars>>

NextRoundTrip == RoundTripForward \/ RoundTripRestore \/ RoundTripReplay

SpecRoundTrip == InitRoundTrip /\ [][NextRoundTrip]_vars

\* -------------------------------------------- AnimationEngine (scheduler)

\* this.totalSteps = algorithm.pageReferences.length
totalSteps == Len(pageReferences)

\* FIFOAlgorithm.getCurrentState()
algorithmState ==
    [frames |-> frames,
     currentStep |-> currentStep,
     faultCount |-> faultCount,
     faultRate |-> calculateFaultRate(faultCount, currentStep),
     frameCount |-> frameCount,
     totalSteps |-> Len(pageReferences)]

\* getCurrentState() whose isComplete tests currentStep > totalSteps.
getCurrentStateLateComplete ==
    [isPlaying |-> isPlaying,
     currentStep |-> animStep,
     totalSteps |-> totalSteps,
     speed |-> speed,
     canStepForward |-> animStep < totalSteps,
     canStepBackward |-> animStep > 0,
     isComplete |-> animStep > totalSteps,
     algorithmState |-> algorithmState]

\* AnimationEngine.getCurrentState()
getCurrentState ==
    [isPlaying |-> isPlaying,
     currentStep |-> animStep,
     totalSteps |-> totalSteps,
     speed |-> speed,
     canStepForward |-> animStep < totalSteps,
     canStepBackward |-> animStep > 0,
     isComplete |-> animStep >= totalSteps,
     algorithmState |-> algorithmState]

\* The id setTimeout returns: one no pending timer has.
newTimerId(pending) == CHOOSE id \in 1..(Cardinality(pending) + 1) : id \notin pending

\* this.algorithm.processPageReference(stepIndex) throws.
processCallThrows(stepIndex) ==
    "processPageReference" \in throwingMethods \/ processThrows(stepIndex)

\* this.algorithm.restoreToStep(stepIndex) throws.
restoreCallThrows(stepIndex) ==
    "restoreToStep" \in throwingMethods \/ restoreThrows(stepIndex)

\* pause() without its clearTimeout: the callback stays scheduled.
pauseKeepsTimer(playing, timer, pending) ==
    IF ~playing
    THEN [result |-> FALSE, isPlaying |-> playing, animationTimer |-> timer,
          pendingTimers |-> pending]
    ELSE [result |-> TRUE, isPlaying |-> FALSE, animationTimer |-> NULL,
          pendingTimers |-> pending]

\* pause(), from the given scheduler fields: its return value and the fields
\* after it.
pauseOutcome(playing, timer, pending) ==
    IF ~playing
    THEN [result |-> FALSE, isPlaying |-> playing, animationTimer |-> timer,
          pendingTimers |-> pending]
    ELSE [result |-> TRUE, isPlaying |-> FALSE, animationTimer |-> NULL,
          pendingTimers |-> pending \ {timer}]

\* scheduleNextStep() that sets no timer.
scheduleNothing(playing, timer, pending) ==
    [animationTimer |-> timer, pendingTimers |-> pending]

\* scheduleNextStep(), from the given scheduler fields.
scheduleOutcome(playing, timer, pending) ==
    IF ~playing
    THEN [animationTimer |-> timer, pendingTimers |-> pending]
    ELSE [animationTimer |-> newTimerId(pending),
          pendingTimers |-> pending \cup {newTimerId(pending)}]

\* stepForward() that tests currentStep > totalSteps: at the end of the
\* string it goes on to call the engine.
stepForwardPastEnd(playing, timer, pending) ==
    IF animStep > totalSteps
    THEN [stepped |-> FALSE, threw |-> FALSE, isPlaying |-> playing,
          animationTimer |-> timer, pendingTimers |-> pending]
    ELSE IF processCallThrows(animStep)
         THEN LET p == pauseOutcome(playing, timer, pending)
              IN  [stepped |-> FALSE, threw |-> TRUE, isPlaying |-> p.isPlaying,
                   animationTimer |-> p.animationTimer, pendingTimers |-> p.pendingTimers]
         ELSE [stepped |-> TRUE, threw |-> FALSE, isPlaying |-> playing,
               animationTimer |-> timer, pendingTimers |-> pending]

\* stepForward() whose catch block does not call pause().
stepForwardNoPause(playing, timer, pending) ==
    IF animStep >= totalSteps
    THEN [stepped |-> FALSE, threw |-> FALSE, isPlaying |-> playing,
          animationTimer |-> timer, pendingTimers |-> pending]
    ELSE IF processCallThrows(animStep)
         THEN [stepped |-> FALSE, threw |-> TRUE, isPlaying |-> playing,
               animationTimer |-> timer, pendingTimers |-> pending]
         ELSE [stepped |-> TRUE, threw |-> FALSE, isPlaying |-> playing,
               animationTimer |-> timer, pendingTimers |-> pending]

\* stepForward(), from the given scheduler fields: whether it stepped the
\* engine, whether the engine threw, and the scheduler fields it leaves.
stepForwardOutcome(playing, timer, pending) ==
    IF animStep >= totalSteps
    THEN [stepped |-> FALSE, threw |-> FALSE, isPlaying |-> playing,
          animationTimer |-> timer, pendingTimers |-> pending]
    ELSE IF processCallThrows(animStep)
         THEN LET p == pauseOutcome(playing, timer, pending)
              IN  [stepped |-> FALSE, threw |-> TRUE, isPlaying |-> p.isPlaying,
                   animationTimer |-> p.animationTimer, pendingTimers |-> p.pendingTimers]
         ELSE [stepped |-> TRUE, threw |-> FALSE, isPlaying |-> playing,
               animationTimer |-> timer, pendingTimers |-> pending]

\* The engine call of stepForward and what follows it in the try block.
stepForwardEngine(sf) ==
    IF sf.stepped
    THEN /\ processPageReference(animStep)
         /\ lastCall' = [op |-> "processPageReference", arg |-> animStep, ok |-> TRUE]
         /\ animStep' = animStep + 1
         /\ animHistory' = Append(animHistory, stepHistory'[Len(stepHistory')])
    ELSE /\ UNCHANGED <<engineVars, animStep, animHistory>>
         /\ lastCall' = IF sf.threw
                         THEN [op |-> "processPageReference", arg |-> animStep, ok |-> FALSE]
                         ELSE lastCall

InitScheduler == \E input \in BoundedInputs : Constructed(input)

\* start() without its test of isPlaying.
StartWhilePlaying ==
    /\ IF animStep >= totalSteps
       THEN /\ UNCHANGED <<isPlaying, animationTimer, pendingTimers>>
            /\ lastAnimCall' = [op |-> "start", result |-> FALSE]
       ELSE LET sch == scheduleOutcome(TRUE, animationTimer, pendingTimers)
            IN  /\ isPlaying' = TRUE
                /\ animationTimer' = sch.animationTimer
                /\ pendingTimers' = sch.pendingTimers
                /\ lastAnimCall' = [op |-> "start", result |-> TRUE]
    /\ UNCHANGED <<inputVars, engineVars, lastCall, animStep, speed, animHistory, driver>>

Start ==
    /\ IF isPlaying \/ animStep >= totalSteps
       THEN /\ UNCHANGED <<isPlaying, animationTimer, pendingTimers>>
            /\ lastAnimCall' = [op |-> "start", result |-> FALSE]
       ELSE LET sch == scheduleOutcome(TRUE, animationTimer, pendingTimers)
            IN  /\ isPlaying' = TRUE
                /\ animationTimer' = sch.animationTimer
                /\ pendingTimers' = sch.pendingTimers
                /\ lastAnimCall' = [op |-> "start", result |-> TRUE]
    /\ UNCHANGED <<inputVars, engineVars, lastCall, animStep, speed, animHistory, driver>>

Pause ==
    /\ LET p == pauseOutcome(isPlaying, animationTimer, pendingTimers)
       IN  /\ isPlaying' = p.isPlaying
           /\ animationTimer' = p.animationTimer
           /\ pendingTimers' = p.pendingTimers
           /\ lastAnimCall' = [op |-> "pause", result |-> p.result]
    /\ UNCHANGED <<inputVars, engineVars, lastCall, animStep, speed, animHistory, driver>>

StepForward ==
    /\ LET sf == stepForwardOutcome(isPlaying, animationTimer, pendingTimers)
       IN  /\ sf.stepped => Len(stepHistory) < MaxHistory
           /\ stepForwardEngine(sf)
           /\ isPlaying' = sf.isPlaying
           /\ animationTimer' = sf.animationTimer
           /\ pendingTimers' = sf.pendingTimers
           /\ lastAnimCall' = [op |-> "stepForward", result |-> sf.stepped]
    /\ UNCHANGED <<inputVars, speed, driver>>

\* stepBackward() that calls restoreToStep before it decrements.
StepBackwardRestoreFirst ==
    /\ IF animStep <= 0
       THEN /\ UNCHANGED <<engineVars, lastCall, animStep>>
            /\ lastAnimCall' = [op |-> "stepBackward", result |-> FALSE]
       ELSE IF restoreCallThrows(animStep)
            THEN /\ UNCHANGED <<engineVars, animStep>>
                 /\ lastCall' = [op |-> "restoreToStep", arg |-> animStep, ok |-> FALSE]
                 /\ lastAnimCall' = [op |-> "stepBackward", result |-> FALSE]
            ELSE /\ restoreToStep(animStep)
                 /\ animStep' = animStep - 1
                 /\ lastCall' = [op |-> "restoreToStep", arg |-> animStep, ok |-> TRUE]
                 /\ lastAnimCall' = [op |-> "stepBackward", result |-> TRUE]
    /\ UNCHANGED <<inputVars, isPlaying, speed, animationTimer, pendingTimers,
                   animHistory, driver>>

StepBackward ==
    /\ IF animStep <= 0
       THEN /\ UNCHANGED <<engineVars, lastCall, animStep>>
            /\ lastAnimCall' = [op |-> "stepBackward", result |-> FALSE]
       ELSE /\ animStep' = animStep - 1
            /\ IF restoreCallThrows(animStep - 1)
               THEN /\ UNCHANGED engineVars
                    /\ lastCall' = [op |-> "restoreToStep", arg |-> animStep - 1, ok |-> FALSE]
                    /\ lastAnimCall' = [op |-> "stepBackward", result |-> FALSE]
               ELSE /\ restoreToStep(animStep - 1)
                    /\ lastCall' = [op |-> "restoreToStep", arg |-> animStep - 1, ok |-> TRUE]
                    /\ lastAnimCall' = [op |-> "stepBackward", result |-> TRUE]
    /\ UNCHANGED <<inputVars, isPlaying, speed, animationTimer, pendingTimers,
                   animHistory, driver>>

\* The values setSpeed is called with: not positive, and positive.
SpeedInputs == {-1, 0, 500}

\* setSpeed that tests speed >= 0: a delay of 0 is taken.
SetSpeedAcceptsZero ==
    /\ \E ms \in SpeedInputs :
          /\ speed' = IF ms >= 0 THEN ms ELSE speed
          /\ lastAnimCall' = [op |-> "setSpeed", result |-> ms >= 0, arg |-> ms]
    /\ UNCHANGED <<inputVars, engineVars, lastCall, isPlaying, animStep,
                   animationTimer, pendingTimers, animHistory, driver>>

SetSpeed ==
    /\ \E ms \in SpeedInputs :
          /\ speed' = IF ms > 0 THEN ms ELSE speed
          /\ lastAnimCall' = [op |-> "setSpeed", result |-> ms > 0, arg |-> ms]
    /\ UNCHANGED <<inputVars, engineVars, lastCall, isPlaying, animStep,
                   animationTimer, pendingTimers, animHistory, driver>>

\* A pending setTimeout callback of scheduleNextStep fires.
TimerFire ==
    \E id \in pendingTimers :
        LET pending == pendingTimers \ {id}
        IN  /\ IF isPlaying /\ animStep < totalSteps
               THEN LET sf == stepForwardOutcome(isPlaying, animationTimer, pending)
                        again == sf.stepped /\ animStep + 1 < totalSteps
                        sch == scheduleOutcome(sf.isPlaying, sf.animationTimer,
                                               sf.pendingTimers)
                    IN  /\ sf.stepped => Len(stepHistory) < MaxHistory
                        /\ stepForwardEngine(sf)
                        /\ isPlaying' = IF again THEN sf.isPlaying ELSE FALSE
                        /\ animationTimer' =
                              IF again THEN sch.animationTimer ELSE sf.animationTimer
                        /\ pendingTimers' =
                              IF again THEN sch.pendingTimers ELSE sf.pendingTimers
                        /\ lastAnimCall' = [op |-> "timer", result |-> sf.stepped]
               ELSE /\ pendingTimers' = pending
                    /\ lastAnimCall' = [op |-> "timer", result |-> FALSE]
                    /\ UNCHANGED <<engineVars, lastCall, isPlaying, animStep,
                                   animationTimer, animHistory>>
            /\ UNCHANGED <<inputVars, speed, driver>>

Next == Start \/ Pause \/ StepForward \/ StepBackward \/ SetSpeed \/ TimerFire

Spec == InitScheduler /\ [][Next]_vars

\* ------------------------------------------- a scheduler on a stand-in
\* The AnimationEngine constructor takes any object that has a function
\* processPageReference.  A stand-in whose processPageReference or
\* restoreToStep throws (or is missing, which throws a TypeError at the call)
\* is accepted; a call that throws leaves the stand-in as it was.

AlgorithmMethods == {"processPageReference", "restoreToStep"}

InitFaulty ==
    /\ \E input \in BoundedInputs : EngineConstructed(input)
    /\ throwingMethods \in (SUBSET AlgorithmMethods) \ {{}}
    /\ AnimationConstructed
    /\ driver = Idle

SpecFaulty == InitFaulty /\ [][Next]_vars

\* ---------------------------------------------------- re-initialization
\* The form is submitted again while a simulation is installed.
\* initializeSimulation builds a new engine and a new scheduler and stores
\* them in window.currentFIFOAlgorithm and window.currentAnimationEngine; it
\* calls nothing on the pair it replaces.  From then on the variables stand
\* for the replaced pair: the controls reach the new scheduler only, and the
\* timers the replaced scheduler had set are still with the browser.

Discarded == [Idle EXCEPT !.pc = "discarded"]

InitializeSimulation ==
    /\ driver = Idle
    /\ driver' = Discarded
    /\ UNCHANGED <<inputVars, engineVars, lastCall, schedVars>>

ControlsUsed == driver = Idle /\ Next

DiscardedTimerFire == driver = Discarded /\ TimerFire

NextReinit == ControlsUsed \/ InitializeSimulation \/ DiscardedTimerFire

SpecReinit == InitScheduler /\ [][NextReinit]_vars

\* ------------------------------------------------------------- autoplay
\* Autoplay left to itself: the step buttons are disabled and the step
\* shortcuts ignored while isPlaying, and pause() is not called.  The
\* history bound must leave room for the references still to be played.

AutoplayHasRoom == Len(stepHistory) + (totalSteps - animStep) <= MaxHistory

AutoplayStart == AutoplayHasRoom /\ Start

AutoplayStepForward == ~isPlaying /\ StepForward

AutoplayStepBackward == ~isPlaying /\ StepBackward

NextAutoplay == AutoplayStart \/ AutoplayStepForward \/ AutoplayStepBackward \/ TimerFire

\* A callback handed to setTimeout runs once its delay has passed.
SpecAutoplay == InitScheduler /\ [][NextAutoplay]_vars /\ WF_vars(TimerFire)

\* =================================================================== claims

\* The textbook FIFO policy, kept as the resident pages in the order they were
\* loaded: a resident page is a hit; a missing page is loaded, and when
\* fcnt pages are resident the one loaded earliest is evicted first.
RefStep(st, page, fcnt) ==
    IF page \in Range(st.resident)
    THEN [resident |-> st.resident, faults |-> st.faults, isHit |-> TRUE, evicted |-> NULL]
    ELSE IF Len(st.resident) < fcnt
         THEN [resident |-> Append(st.resident, page), faults |-> st.faults + 1,
               isHit |-> FALSE, evicted |-> NULL]
         ELSE [resident |-> Append(Tail(st.resident), page), faults |-> st.faults + 1,
               isHit |-> FALSE, evicted |-> Head(st.resident)]

RECURSIVE RefRun(_, _, _)
RefRun(refs, fcnt, k) ==
    IF k = 0
    THEN [resident |-> <<>>, faults |-> 0, isHit |-> FALSE, evicted |-> NULL]
    ELSE RefStep(RefRun(refs, fcnt, k - 1), refs[k], fcnt)

ResidentPages(fr) == Range(fr) \ {NULL}

\* C1: in an in-order forward run on a fresh engine, every StepResult agrees
\* with the reference FIFO policy that evicts the page loaded earliest: the
\* same isHit flag, the same set of resident pages, the same evicted page on
\* a replacement and the same cumulative faultCount; so does the live engine.
C1_ForwardRunRefinesFifo ==
    /\ \A i \in 0..(Len(stepHistory) - 1) :
          LET r == RefRun(pageReferences, frameCount, i + 1)
              h == At(stepHistory, i)
          IN  /\ h.isHit = r.isHit
              /\ ResidentPages(h.frameState) = Range(r.resident)
              /\ h.replacedPage = r.evicted
              /\ h.faultCount = r.faults
    /\ LET r == RefRun(pageReferences, frameCount, currentStep)
       IN  /\ ResidentPages(frames) = Range(r.resident)
           /\ faultCount = r.faults

\* A finished forward run on at least two frames that replaced a page at
\* least twice.
C1_Witness ==
    /\ frameCount >= 2
    /\ currentStep = Len(pageReferences)
    /\ Cardinality({i \in 0..(Len(stepHistory) - 1) :
                        At(stepHistory, i).replacedPage # NULL}) >= 2

ForwardRunDone(fcnt, refs) ==
    /\ frameCount = fcnt
    /\ pageReferences = refs
    /\ currentStep = Len(refs)

\* C2: a complete in-order forward run on a fresh engine ends with
\* faultCount 9 for (3, [1,2,3,4,1,2,5,1,2,3,4,5]), 6 for (2, [1,2,3,1,2,3]),
\* 1 for (3, [1,1,1,1,1]), 2 for (2, [1,2,1,2,1,2]) and 5 for (2, [1,2,3,4,5]).
C2_ScenarioFaultCounts ==
    /\ ForwardRunDone(3, <<1, 2, 3, 4, 1, 2, 5, 1, 2, 3, 4, 5>>) => faultCount = 9
    /\ ForwardRunDone(2, <<1, 2, 3, 1, 2, 3>>) => faultCount = 6
    /\ ForwardRunDone(3, <<1, 1, 1, 1, 1>>) => faultCount = 1
    /\ ForwardRunDone(2, <<1, 2, 1, 2, 1, 2>>) => faultCount = 2
    /\ ForwardRunDone(2, <<1, 2, 3, 4, 5>>) => faultCount = 5

\* The classic scenario has run to its end.
C2_Witness ==
    /\ ForwardRunDone(3, <<1, 2, 3, 4, 1, 2, 5, 1, 2, 3, 4, 5>>)
    /\ Len(stepHistory) = 12

OccupiedIndices(fr) == {i \in 0..(Len(fr) - 1) : At(fr, i) # NULL}

\* C3: in every state reachable by any sequence of processPageReference and
\* restoreToStep calls, fifoQueue has exactly as many elements as there are
\* non-empty frames, holds no frame index twice, and every element is in
\* 0..frameCount-1.
C3_QueueMatchesFrames ==
    /\ Len(fifoQueue) = Cardinality(OccupiedIndices(frames))
    /\ \A i, j \in 1..Len(fifoQueue) : i # j => fifoQueue[i] # fifoQueue[j]
    /\ \A i \in 1..Len(fifoQueue) : fifoQueue[i] \in 0..(frameCount - 1)

\* A restoreToStep back to a step at which some, but not all, frames were
\* occupied, after a later step had filled or replaced a frame.
C3_Witness ==
    /\ lastCall.op = "restoreToStep"
    /\ lastCall.ok
    /\ 0 < Len(fifoQueue)
    /\ Len(fifoQueue) < frameCount
    /\ Len(stepHistory) >= 2

\* C7: stepHistory is append-only: restoreToStep leaves stepHistory,
\* pageReferences and frameCount unchanged, and processPageReference leaves
\* every existing entry unchanged and adds exactly one entry at the end.
C7_HistoryAppendOnly ==
    [][ /\ (lastCall'.op = "restoreToStep" =>
              /\ stepHistory' = stepHistory
              /\ pageReferences' = pageReferences
              /\ frameCount' = frameCount)
        /\ (lastCall'.op = "processPageReference" /\ lastCall'.ok =>
              /\ Len(stepHistory') = Len(stepHistory) + 1
              /\ SubSeq(stepHistory', 1, Len(stepHistory)) = stepHistory)
      ]_vars

\* A restoreToStep that went back behind the end of a history of two or
\* more entries, all of them still there.
C7_Witness ==
    /\ lastCall.op = "restoreToStep"
    /\ lastCall.ok
    /\ Len(stepHistory) >= 2
    /\ lastCall.arg < Len(stepHistory) - 1

\* C9 as stated: faultCount never decreases across any engine operation
\* (processPageReference or restoreToStep).
C9_FaultCountNeverDecreases == [][faultCount' >= faultCount]_vars

\* C9 as amended: processPageReference never lowers faultCount (it adds 0 or
\* 1), and restoreToStep(k) sets it to the count recorded in stepHistory[k],
\* which may be lower than the current one.
C9_FaultCountMonotoneForward ==
    [][ /\ (lastCall'.op = "processPageReference" /\ lastCall'.ok =>
              faultCount' \in {faultCount, faultCount + 1})
        /\ (lastCall'.op = "restoreToStep" /\ lastCall'.ok =>
              faultCount' = At(stepHistory, lastCall'.arg).faultCount)
      ]_vars

\* A processPageReference that hit, after faults had been counted.
C9_Witness ==
    /\ lastCall.op = "processPageReference"
    /\ lastCall.ok
    /\ At(stepHistory, Len(stepHistory) - 1).isHit
    /\ faultCount >= 2

\* The engine after an uninterrupted run processPageReference(0..n-1) on a
\* fresh engine.
RECURSIVE ForwardRun(_)
ForwardRun(n) ==
    IF n = 0
    THEN [frames |-> [i \in 1..frameCount |-> NULL], fifoQueue |-> <<>>, faultCount |-> 0]
    ELSE LET prev == ForwardRun(n - 1)
         IN  processOutcome(prev.frames, prev.fifoQueue, prev.faultCount, n - 1)

\* C4: restoreToStep(k) followed by processPageReference(k+1), ...,
\* processPageReference(end) leaves the engine with the same frames and the
\* same faultCount as an uninterrupted forward run processPageReference(0..end)
\* on a fresh engine, for every k <= end within the processed history.
C4_RoundTripReproducesForwardRun ==
    (driver.pc = "replay" /\ driver.next > driver.end) =>
        /\ frames = ForwardRun(driver.end + 1).frames
        /\ faultCount = ForwardRun(driver.end + 1).faultCount

\* C5: in every reachable engine state, also after any mix of stepForward
\* and stepBackward through the AnimationEngine, faultCount equals the
\* number of entries with isHit == false among stepHistory[0 .. currentStep).
C5_FaultCountMatchesHistory ==
    faultCount =
        Cardinality({i \in 0..(currentStep - 1) :
                        i < Len(stepHistory) /\ ~At(stepHistory, i).isHit})

\* C6: stepHistory holds exactly one StepResult per reference index:
\* stepHistory[i].stepIndex == i for every i, and stepHistory.length never
\* exceeds pageReferences.length, also after stepping backward and forward
\* again.
C6_OneResultPerReference ==
    /\ \A i \in 0..(Len(stepHistory) - 1) : At(stepHistory, i).stepIndex = i
    /\ Len(stepHistory) <= Len(pageReferences)

\* C10: after a successful restoreToStep(k), frames equals
\* stepHistory[k].frameState, faultCount equals stepHistory[k].faultCount and
\* the engine's currentStep equals k + 1.
C10_RestoreReinstatesStep ==
    (lastCall.op = "restoreToStep" /\ lastCall.ok) =>
        /\ frames = At(stepHistory, lastCall.arg).frameState
        /\ faultCount = At(stepHistory, lastCall.arg).faultCount
        /\ currentStep = lastCall.arg + 1

\* C11: in every execution driven only through the AnimationEngine, each
\* call processPageReference(k) is made when the engine's own currentStep
\* equals k, and it moves the engine's currentStep from k to k + 1.
C11_ProcessedInIndexOrder ==
    [][ (lastAnimCall'.op \in {"stepForward", "timer"} /\ lastAnimCall'.result) =>
            /\ lastCall'.op = "processPageReference"
            /\ currentStep = lastCall'.arg
            /\ currentStep' = lastCall'.arg + 1
      ]_vars

\* C12: whenever no AnimationEngine method is executing, the
\* AnimationEngine's currentStep equals the FIFOAlgorithm's currentStep.
C12_SchedulerMirrorsEngine == animStep = currentStep

\* C13: autoplay terminates: once start() has returned true and pause() is
\* not called, every timer-driven step processes the reference at the
\* scheduler's currentStep and advances currentStep by one, and the run
\* leads to currentStep = totalSteps with isPlaying false and no timed step
\* pending.
C13_AutoplayTerminates ==
    /\ [][ (lastAnimCall'.op = "timer" /\ lastAnimCall'.result) =>
              /\ lastCall' = [op |-> "processPageReference", arg |-> animStep, ok |-> TRUE]
              /\ animStep' = animStep + 1
         ]_vars
    /\ (isPlaying ~> (~isPlaying /\ animStep = totalSteps /\ pendingTimers = {}))

\* Timer-driven steps have played a string of three references to its end.
C13_Witness ==
    /\ lastAnimCall = [op |-> "timer", result |-> TRUE]
    /\ totalSteps = 3
    /\ animStep = totalSteps
    /\ Len(animHistory) = 3
    /\ ~isPlaying
    /\ pendingTimers = {}

\* C14: a pause() that returns true cancels the pending scheduled step and
\* changes neither currentStep nor the engine; while paused, a timer
\* callback steps nothing and only a manual step changes currentStep; a
\* pause() while paused returns false and changes nothing.
C14_PauseCancelsPendingStep ==
    [][ /\ (lastAnimCall' = [op |-> "pause", result |-> TRUE] =>
              /\ isPlaying /\ ~isPlaying'
              /\ pendingTimers' = {}
              /\ animationTimer' = NULL
              /\ UNCHANGED <<engineVars, animStep, animHistory>>)
        /\ (~isPlaying /\ lastAnimCall'.op = "timer" => ~lastAnimCall'.result)
        /\ (~isPlaying /\ lastAnimCall'.op \notin {"stepForward", "stepBackward"} =>
              UNCHANGED <<engineVars, animStep, animHistory>>)
        /\ (~isPlaying /\ lastAnimCall'.op = "pause" =>
              /\ ~lastAnimCall'.result
              /\ UNCHANGED <<engineVars, isPlaying, animStep, speed, animationTimer,
                             pendingTimers, animHistory>>)
      ]_vars

\* Autoplay was paused in the middle of the reference string, and no timed
\* step is pending.
C14_Witness ==
    /\ lastAnimCall = [op |-> "pause", result |-> TRUE]
    /\ lastCall.op = "processPageReference"
    /\ 0 < animStep /\ animStep < totalSteps
    /\ ~isPlaying
    /\ pendingTimers = {}

\* C15: start() returns false and changes no state when isPlaying is
\* already true or when currentStep >= totalSteps; otherwise it returns
\* true, sets isPlaying to true and schedules exactly one pending timed
\* step without advancing currentStep itself.
C15_StartSchedulesOneStep ==
    [][ lastAnimCall'.op = "start" =>
          IF isPlaying \/ animStep >= totalSteps
          THEN /\ ~lastAnimCall'.result
               /\ UNCHANGED <<engineVars, isPlaying, animStep, speed, animationTimer,
                              pendingTimers, animHistory>>
          ELSE /\ lastAnimCall'.result
               /\ isPlaying'
               /\ Cardinality(pendingTimers') = 1
               /\ pendingTimers' = {animationTimer'}
               /\ UNCHANGED <<engineVars, animStep, speed, animHistory>>
      ]_vars

\* start() has returned true in the middle of the reference string: one
\* timed step is pending and nothing has been fired since.
C15_Witness ==
    /\ lastAnimCall = [op |-> "start", result |-> TRUE]
    /\ 0 < animStep /\ animStep < totalSteps
    /\ isPlaying
    /\ Cardinality(pendingTimers) = 1

\* C16: stepForward() returns null and changes neither scheduler nor engine
\* state when currentStep >= totalSteps; otherwise it calls
\* processPageReference with the scheduler's current currentStep, increases
\* currentStep by exactly one and returns that call's StepResult, which it
\* also appends to its own step log.
C16_StepForwardAdvancesByOne ==
    [][ lastAnimCall'.op = "stepForward" =>
          IF animStep >= totalSteps
          THEN /\ ~lastAnimCall'.result
               /\ UNCHANGED <<engineVars, isPlaying, animStep, speed, animationTimer,
                              pendingTimers, animHistory>>
          ELSE /\ lastAnimCall'.result
               /\ lastCall' = [op |-> "processPageReference", arg |-> animStep, ok |-> TRUE]
               /\ animStep' = animStep + 1
               /\ Len(stepHistory') = Len(stepHistory) + 1
               /\ At(stepHistory', Len(stepHistory)).stepIndex = animStep
               /\ At(stepHistory', Len(stepHistory)).pageNumber = At(pageReferences, animStep)
               /\ animHistory' = Append(animHistory, At(stepHistory', Len(stepHistory)))
               /\ UNCHANGED <<isPlaying, speed, animationTimer, pendingTimers>>
      ]_vars

\* A manual stepForward() has processed the last reference of a string of
\* three.
C16_Witness ==
    /\ lastAnimCall = [op |-> "stepForward", result |-> TRUE]
    /\ lastCall = [op |-> "processPageReference", arg |-> 2, ok |-> TRUE]
    /\ totalSteps = 3
    /\ animStep = 3

\* C17: stepBackward() returns false and changes neither scheduler nor
\* engine state when currentStep <= 0; otherwise it decreases currentStep by
\* exactly one, calls restoreToStep with the decremented value and returns
\* true.
C17_StepBackwardRestoresDecremented ==
    [][ lastAnimCall'.op = "stepBackward" =>
          IF animStep <= 0
          THEN /\ ~lastAnimCall'.result
               /\ UNCHANGED <<engineVars, isPlaying, animStep, speed, animationTimer,
                              pendingTimers, animHistory>>
          ELSE /\ lastAnimCall'.result
               /\ animStep' = animStep - 1
               /\ lastCall' = [op |-> "restoreToStep", arg |-> animStep - 1, ok |-> TRUE]
               /\ frames' = At(stepHistory, animStep - 1).frameState
               /\ faultCount' = At(stepHistory, animStep - 1).faultCount
               /\ UNCHANGED <<stepHistory, isPlaying, speed, animationTimer,
                              pendingTimers, animHistory>>
      ]_vars

\* A stepBackward() from the end of a string of three references.
C17_Witness ==
    /\ lastAnimCall = [op |-> "stepBackward", result |-> TRUE]
    /\ lastCall = [op |-> "restoreToStep", arg |-> 2, ok |-> TRUE]
    /\ totalSteps = 3
    /\ animStep = 2

\* C18: when the engine call inside stepBackward() fails, stepBackward
\* returns false and leaves the scheduler's currentStep and isPlaying exactly
\* as they were before the call.
C18_FailedStepBackwardChangesNothing ==
    [][ (lastAnimCall'.op = "stepBackward" /\ animStep > 0
             /\ restoreCallThrows(animStep - 1)) =>
          /\ ~lastAnimCall'.result
          /\ animStep' = animStep
          /\ isPlaying' = isPlaying
      ]_vars

\* C19: when processPageReference fails inside stepForward(), called
\* manually or by the timer callback, stepForward returns null, currentStep,
\* the local step log and the engine are unchanged, isPlaying is false
\* afterwards and no timed step remains pending.
C19_FailedStepForwardPauses ==
    [][ ( /\ \/ lastAnimCall'.op = "stepForward"
             \/ lastAnimCall'.op = "timer" /\ isPlaying
          /\ animStep < totalSteps
          /\ processCallThrows(animStep) ) =>
          /\ ~lastAnimCall'.result
          /\ lastCall' = [op |-> "processPageReference", arg |-> animStep, ok |-> FALSE]
          /\ UNCHANGED <<engineVars, animStep, animHistory>>
          /\ ~isPlaying'
          /\ pendingTimers' = {}
      ]_vars

\* The stepForward() of a timer callback failed during autoplay: autoplay
\* has stopped and nothing is pending.
C19_Witness ==
    /\ lastAnimCall = [op |-> "timer", result |-> FALSE]
    /\ lastCall = [op |-> "processPageReference", arg |-> animStep, ok |-> FALSE]
    /\ "processPageReference" \in throwingMethods
    /\ ~isPlaying
    /\ pendingTimers = {}

\* The indices of the elements that are negative or not an integer.
OffendingIndices(items) ==
    {i \in 0..(Len(items) - 1) : ~(At(items, i).kind = "integer" /\ At(items, i).val >= 0)}

\* C20: constructing a FIFOAlgorithm fails, creating no engine, when
\* frameCount is not a positive integer (including 0), when pageReferences
\* is empty, or when some reference is negative or not an integer; in the
\* last case the error names the lowest offending index.  With a positive
\* integer frameCount and a non-empty array of non-negative integers the
\* engine is created.
C20_ConstructorRejectsInvalidArguments ==
    driver.pc = "done" =>
        LET fcArg == driver.frameCount
            refsArg == driver.pageReferences
            badFrameCount == ~(fcArg.kind = "integer" /\ fcArg.val >= 1)
            emptyReferences == refsArg.isArray /\ refsArg.items = <<>>
            offending == OffendingIndices(refsArg.items)
        IN  /\ (badFrameCount \/ emptyReferences \/ offending # {}) =>
                  /\ ~lastCall.ok
                  /\ NoEngine
            /\ (~badFrameCount /\ offending # {}) =>
                  /\ lastCall.error = "Page reference at index must be a non-negative integer"
                  /\ lastCall.arg \in offending
                  /\ \A i \in offending : lastCall.arg <= i
            /\ (~badFrameCount /\ refsArg.isArray /\ ~emptyReferences /\ offending = {}) =>
                  /\ lastCall.ok
                  /\ frameCount = fcArg.val
                  /\ Len(pageReferences) = Len(refsArg.items)
                  /\ Len(frames) = frameCount

\* The constructor threw for an array whose elements at index 1 and at
\* index 2 are both rejected, and named index 1.
C20_Witness ==
    /\ driver.pc = "done"
    /\ ~lastCall.ok
    /\ OffendingIndices(driver.pageReferences.items) = {1, 2}
    /\ lastCall.arg = 1
    /\ NoEngine

\* C21: processPageReference(stepIndex) with stepIndex < 0 or
\* stepIndex >= pageReferences.length fails and leaves frames, fifoQueue,
\* faultCount, currentStep and stepHistory unchanged.
C21_ProcessOutOfRangeFails ==
    [][ ( /\ lastCall'.op = "processPageReference"
          /\ (lastCall'.arg < 0 \/ lastCall'.arg >= Len(pageReferences)) ) =>
          /\ ~lastCall'.ok
          /\ UNCHANGED <<frames, fifoQueue, faultCount, currentStep, stepHistory>>
      ]_vars

\* processPageReference(pageReferences.length) has failed on an engine that
\* had processed two references.
C21_Witness ==
    /\ lastCall = [op |-> "processPageReference", arg |-> Len(pageReferences), ok |-> FALSE]
    /\ Len(stepHistory) >= 2
    /\ currentStep >= 1

\* C22: restoreToStep(stepIndex) with stepIndex < 0 or
\* stepIndex >= stepHistory.length (in particular any index on an engine that
\* has processed nothing) fails and leaves frames, fifoQueue, faultCount,
\* currentStep and stepHistory unchanged.
C22_RestoreOutOfRangeFails ==
    [][ ( /\ lastCall'.op = "restoreToStep"
          /\ (lastCall'.arg < 0 \/ lastCall'.arg >= Len(stepHistory)) ) =>
          /\ ~lastCall'.ok
          /\ UNCHANGED <<frames, fifoQueue, faultCount, currentStep, stepHistory>>
      ]_vars

\* restoreToStep(stepHistory.length) has failed on an engine that had
\* processed two references.
C22_Witness ==
    /\ lastCall = [op |-> "restoreToStep", arg |-> Len(stepHistory), ok |-> FALSE]
    /\ Len(stepHistory) >= 2
    /\ faultCount >= 1

\* C23: with frameCount = 1, in a forward run every reference after index 0
\* whose page differs from the resident page is a replacement of frame 0
\* (replacedFrameIndex = 0 and replacedPage = the previously resident page);
\* an empty-frame fill happens only at index 0.
C23_SingleFrameReplaces ==
    frameCount = 1 =>
        \A i \in 0..(Len(stepHistory) - 1) :
            LET h == At(stepHistory, i)
            IN  IF i = 0
                THEN /\ ~h.isHit
                     /\ h.replacedFrameIndex = NULL
                     /\ h.replacedPage = NULL
                ELSE LET resident == At(At(stepHistory, i - 1).frameState, 0)
                     IN  IF h.pageNumber # resident
                         THEN /\ ~h.isHit
                              /\ h.replacedFrameIndex = 0
                              /\ h.replacedPage = resident
                         ELSE /\ h.isHit
                              /\ h.replacedFrameIndex = NULL

\* A finished forward run on one frame that replaced the resident page at
\* least twice and hit at least once.
C23_Witness ==
    /\ frameCount = 1
    /\ currentStep = Len(pageReferences)
    /\ Cardinality({i \in 0..(Len(stepHistory) - 1) :
                        At(stepHistory, i).replacedFrameIndex = 0}) >= 2
    /\ \E i \in 0..(Len(stepHistory) - 1) : At(stepHistory, i).isHit

\* C24: when pageReferences.length < frameCount, no StepResult ever has a
\* non-null replacedFrameIndex, and after a full forward run faultCount
\* equals the number of distinct page numbers in pageReferences.
C24_ShortStringNeverReplaces ==
    Len(pageReferences) < frameCount =>
        /\ \A i \in 0..(Len(stepHistory) - 1) :
              At(stepHistory, i).replacedFrameIndex = NULL
        /\ currentStep = Len(pageReferences) =>
              faultCount = Cardinality(Range(pageReferences))

\* A finished forward run of two references to the same page on three
\* frames.
C24_Witness ==
    /\ frameCount = 3
    /\ Len(pageReferences) = 2
    /\ pageReferences[1] = pageReferences[2]
    /\ currentStep = 2
    /\ faultCount = 1

\* C25: in every reachable scheduler state 0 <= currentStep <= totalSteps,
\* and getCurrentState reports canStepForward exactly when another reference
\* is left, canStepBackward exactly when currentStep > 0 and isComplete
\* exactly when none is left, so canStepForward and isComplete are never
\* both true or both false.
C25_StepWithinBounds ==
    /\ 0 <= animStep
    /\ animStep <= totalSteps
    /\ getCurrentState.currentStep = animStep
    /\ getCurrentState.totalSteps = Len(pageReferences)
    /\ getCurrentState.canStepForward <=> (animStep < Len(pageReferences))
    /\ getCurrentState.canStepBackward <=> (animStep > 0)
    /\ getCurrentState.isComplete <=> (animStep >= Len(pageReferences))
    /\ getCurrentState.canStepForward # getCurrentState.isComplete

\* The scheduler has stepped to the end of a string of three references:
\* complete, with a step back possible and none forward.
C25_Witness ==
    /\ lastAnimCall = [op |-> "stepForward", result |-> TRUE]
    /\ totalSteps = 3
    /\ animStep = 3
    /\ getCurrentState.isComplete
    /\ getCurrentState.canStepBackward
    /\ ~getCurrentState.canStepForward

\* C26: setSpeed(ms) leaves speed unchanged when ms <= 0 and sets speed to
\* ms otherwise, so speed is positive in every reachable state (initially
\* 1000); setSpeed changes no other scheduler or engine state.
C26_SpeedStaysPositive ==
    /\ [](speed > 0)
    /\ [][ lastAnimCall'.op = "setSpeed" =>
             /\ speed' = IF lastAnimCall'.arg <= 0 THEN speed ELSE lastAnimCall'.arg
             /\ UNCHANGED <<engineVars, isPlaying, animStep, animationTimer,
                            pendingTimers, animHistory>>
         ]_vars

\* setSpeed(0) was ignored during autoplay, after an earlier setSpeed(500)
\* had been taken.
C26_Witness ==
    /\ lastAnimCall = [op |-> "setSpeed", result |-> FALSE, arg |-> 0]
    /\ speed = 500
    /\ isPlaying
    /\ animStep >= 1

\* The call that has just returned was a processPageReference that did not
\* throw.
Processed == lastCall'.op = "processPageReference" /\ lastCall'.ok

\* The page that call referenced, and the StepResult it appended.
ProcessedPage == At(pageReferences, lastCall'.arg)

ProcessedResult == At(stepHistory', Len(stepHistory))

EmptyIndices(fr) == {i \in 0..(Len(fr) - 1) : At(fr, i) = NULL}

\* C27: a processPageReference call whose page is already resident (a hit)
\* leaves frames, fifoQueue and faultCount unchanged and records
\* replacedFrameIndex = null and replacedPage = null; a call whose page is
\* not resident increases faultCount by exactly 1.
C27_HitChangesNothing ==
    [][ Processed =>
          IF ProcessedPage \in Range(frames)
          THEN /\ UNCHANGED <<frames, fifoQueue, faultCount>>
               /\ ProcessedResult.isHit
               /\ ProcessedResult.replacedFrameIndex = NULL
               /\ ProcessedResult.replacedPage = NULL
          ELSE /\ faultCount' = faultCount + 1
               /\ ~ProcessedResult.isHit
      ]_vars

\* A hit on a page held in a frame other than frame 0, after two faults.
C27_Witness ==
    /\ lastCall.op = "processPageReference"
    /\ lastCall.ok
    /\ At(stepHistory, Len(stepHistory) - 1).isHit
    /\ At(frames, 0) # At(stepHistory, Len(stepHistory) - 1).pageNumber
    /\ faultCount >= 2

\* C28: on a miss while at least one frame is empty, the page is placed in
\* the lowest-index empty frame, that index is appended to the tail of
\* fifoQueue, every other frame and the existing queue order are unchanged,
\* and the StepResult records no replacement.
C28_MissFillsLowestEmptyFrame ==
    [][ (Processed /\ ProcessedPage \notin Range(frames) /\ EmptyIndices(frames) # {}) =>
          LET lowest == CHOOSE i \in EmptyIndices(frames) :
                            \A j \in EmptyIndices(frames) : i <= j
          IN  /\ At(frames', lowest) = ProcessedPage
              /\ \A i \in 0..(Len(frames) - 1) : i # lowest => At(frames', i) = At(frames, i)
              /\ Len(frames') = Len(frames)
              /\ fifoQueue' = Append(fifoQueue, lowest)
              /\ ProcessedResult.replacedFrameIndex = NULL
              /\ ProcessedResult.replacedPage = NULL
      ]_vars

\* A miss has filled frame 1 of three frames, frame 2 being empty still.
C28_Witness ==
    /\ lastCall.op = "processPageReference"
    /\ lastCall.ok
    /\ frameCount = 3
    /\ ~At(stepHistory, Len(stepHistory) - 1).isHit
    /\ At(frames, 1) = At(stepHistory, Len(stepHistory) - 1).pageNumber
    /\ At(frames, 2) = NULL
    /\ fifoQueue = <<0, 1>>

\* C29: on a miss while all frames are occupied, the frame at the head of
\* fifoQueue is the one overwritten: replacedFrameIndex is that head,
\* replacedPage is its previous content, the index moves from head to tail
\* of fifoQueue, and all other frames are unchanged.
C29_MissReplacesQueueHead ==
    [][ (Processed /\ ProcessedPage \notin Range(frames) /\ EmptyIndices(frames) = {}) =>
          LET head == fifoQueue[1]
          IN  /\ ProcessedResult.replacedFrameIndex = head
              /\ ProcessedResult.replacedPage = At(frames, head)
              /\ At(frames', head) = ProcessedPage
              /\ \A i \in 0..(Len(frames) - 1) : i # head => At(frames', i) = At(frames, i)
              /\ Len(frames') = Len(frames)
              /\ fifoQueue' = Append(Tail(fifoQueue), head)
      ]_vars

\* A miss on two full frames has replaced the page of the frame at the head
\* of a queue of two.
C29_Witness ==
    /\ lastCall.op = "processPageReference"
    /\ lastCall.ok
    /\ frameCount = 2
    /\ At(stepHistory, Len(stepHistory) - 1).replacedFrameIndex # NULL
    /\ At(stepHistory, Len(stepHistory) - 1).replacedPage # NULL
    /\ Len(fifoQueue) = 2
    /\ fifoQueue[2] = At(stepHistory, Len(stepHistory) - 1).replacedFrameIndex

\* C30: in every StepResult, replacedFrameIndex is non-null exactly when
\* the step was a miss taken with all frames occupied, replacedPage is
\* non-null exactly when replacedFrameIndex is non-null, and frameState (the
\* snapshot after the step) contains pageNumber.
C30_StepResultConsistent ==
    /\ [](\A i \in 0..(Len(stepHistory) - 1) :
             LET h == At(stepHistory, i)
             IN  /\ (h.replacedPage # NULL) <=> (h.replacedFrameIndex # NULL)
                 /\ h.pageNumber \in Range(h.frameState)
                 /\ h.replacedFrameIndex # NULL => ~h.isHit /\ NULL \notin Range(h.frameState))
    /\ [][ Processed =>
             /\ (ProcessedResult.replacedFrameIndex # NULL) <=>
                   (ProcessedPage \notin Range(frames) /\ EmptyIndices(frames) = {})
             /\ ProcessedResult.frameState = frames'
             /\ ProcessedResult.pageNumber = ProcessedPage
         ]_vars

\* The history holds a fill of an empty frame, a hit and a replacement.
C30_Witness ==
    /\ \E i \in 0..(Len(stepHistory) - 1) : At(stepHistory, i).isHit
    /\ \E i \in 0..(Len(stepHistory) - 1) : At(stepHistory, i).replacedFrameIndex # NULL
    /\ \E i \in 0..(Len(stepHistory) - 1) :
          ~At(stepHistory, i).isHit /\ At(stepHistory, i).replacedFrameIndex = NULL

\* C31: in every reachable engine state no page number occupies more than
\* one frame, and the occupied frames are exactly a prefix 0..m-1 of the
\* frame indices (an empty frame never has an occupied frame after it).
C31_FramesDistinctAndPacked ==
    /\ \A i, j \in 0..(Len(frames) - 1) :
          (i # j /\ At(frames, i) # NULL) => At(frames, i) # At(frames, j)
    /\ \A i, j \in 0..(Len(frames) - 1) :
          (i < j /\ At(frames, i) = NULL) => At(frames, j) = NULL

\* A restoreToStep has gone back to a state with frames 0 and 1 of three
\* occupied by different pages and frame 2 empty.
C31_Witness ==
    /\ lastCall.op = "restoreToStep"
    /\ lastCall.ok
    /\ frameCount = 3
    /\ At(frames, 0) # NULL
    /\ At(frames, 1) # NULL
    /\ At(frames, 2) = NULL
    /\ Len(stepHistory) = 3

\* C32: a successfully constructed engine has every frame empty, an empty
\* fifoQueue (getOldestFrameIndex returns -1), currentStep = 0,
\* faultCount = 0, faultRate = 0 and an empty stepHistory, and a scheduler
\* constructed on it has isPlaying = false, currentStep = 0, speed = 1000,
\* totalSteps = pageReferences.length and no pending timer.
C32_FreshEngineAndScheduler ==
    /\ (driver.pc \in {"done", "installed"} /\ lastCall.ok) =>
          /\ Len(frames) = frameCount
          /\ \A i \in 0..(frameCount - 1) : At(frames, i) = NULL
          /\ fifoQueue = <<>>
          /\ getOldestFrameIndex(fifoQueue) = -1
          /\ currentStep = 0
          /\ faultCount = 0
          /\ algorithmState.faultRate = 0
          /\ stepHistory = <<>>
    /\ driver.pc = "installed" =>
          /\ getCurrentState.isPlaying = FALSE
          /\ getCurrentState.currentStep = 0
          /\ getCurrentState.speed = 1000
          /\ getCurrentState.totalSteps = Len(driver.pageReferences.items)
          /\ animationTimer = NULL
          /\ pendingTimers = {}

\* A scheduler has been constructed on a fresh engine of three frames and
\* three references.
C32_Witness ==
    /\ driver.pc = "installed"
    /\ frameCount = 3
    /\ Len(pageReferences) = 3
    /\ lastAnimCall = NoAnimCall
    /\ speed = 1000

\* The frames and faultCount the engine had before the call that produced
\* StepResult h: a hit changed nothing, a replacement put the page over
\* replacedPage, a fill put it into a frame that was empty.
BeforeStep(h) ==
    [frames |->
        IF h.isHit THEN h.frameState
        ELSE IF h.replacedFrameIndex # NULL
             THEN [h.frameState EXCEPT ![h.replacedFrameIndex + 1] = h.replacedPage]
             ELSE [i \in 1..Len(h.frameState) |->
                      IF h.frameState[i] = h.pageNumber THEN NULL ELSE h.frameState[i]],
     faultCount |-> IF h.isHit THEN h.faultCount ELSE h.faultCount - 1]

\* C33: stepBackward undoes stepForward: a successful stepForward followed
\* by a successful stepBackward leaves the engine's frames and faultCount
\* equal to their values before the stepForward.
C33_StepBackwardUndoesStepForward ==
    [][ ( /\ lastAnimCall = [op |-> "stepForward", result |-> TRUE]
          /\ lastAnimCall' = [op |-> "stepBackward", result |-> TRUE] ) =>
          /\ frames' = BeforeStep(At(stepHistory, Len(stepHistory) - 1)).frames
          /\ faultCount' = BeforeStep(At(stepHistory, Len(stepHistory) - 1)).faultCount
      ]_vars

\* C34: the engine state shown at a scheduler position depends only on the
\* position: whatever calls led to the scheduler's currentStep == k, the
\* engine's frames and faultCount are those of the uninterrupted forward run
\* to k, which is one of the sequences that end there.
C34_EngineStateDependsOnPosition ==
    /\ frames = ForwardRun(animStep).frames
    /\ faultCount = ForwardRun(animStep).faultCount

\* C35: for any interleaving of start, pause, manual steps and timer
\* firings, whenever isPlaying is true a scheduled step is pending; the
\* scheduler is never in a state with isPlaying true, currentStep >=
\* totalSteps and no pending timer.
C35_PlayingHasPendingStep ==
    /\ isPlaying => pendingTimers # {}
    /\ ~(isPlaying /\ animStep >= totalSteps /\ pendingTimers = {})

\* C36: for any interleaving of start, pause, manual steps and timer
\* firings, at most one scheduled step is pending at any time, and a
\* pending scheduled step implies isPlaying.
C36_AtMostOnePendingStep ==
    /\ Cardinality(pendingTimers) <= 1
    /\ pendingTimers # {} => isPlaying /\ pendingTimers = {animationTimer}

\* Autoplay was started a second time, after a pause in the middle of the
\* string, and one timed step is pending.
C36_Witness ==
    /\ lastAnimCall = [op |-> "start", result |-> TRUE]
    /\ animStep >= 1
    /\ lastCall.op = "processPageReference"
    /\ isPlaying
    /\ Cardinality(pendingTimers) = 1

\* C37: re-initializing the simulation while autoplay is active stops the
\* previous scheduler: after initializeSimulation has installed a new engine
\* and scheduler, no timer of the discarded scheduler fires a step and the
\* discarded engine's state never changes again.
C37_DiscardedSchedulerStops ==
    [][ driver = Discarded =>
          /\ UNCHANGED <<engineVars, animStep, animHistory>>
          /\ ~(lastAnimCall'.op = "timer" /\ lastAnimCall'.result /\ lastAnimCall' # lastAnimCall)
      ]_vars

\* C38: in every state reachable by driving a fresh engine only through the
\* AnimationEngine, faultCount <= the engine's currentStep, so the reported
\* faultRate is always between 0 and 100 (10000 hundredths of a percent).
C38_FaultRateWithinRange ==
    /\ faultCount <= currentStep
    /\ algorithmState.faultRate >= 0
    /\ algorithmState.faultRate <= 10000
    /\ \A i \in 0..(Len(stepHistory) - 1) :
          /\ At(stepHistory, i).faultRate >= 0
          /\ At(stepHistory, i).faultRate <= 10000

\* C39: when an AnimationEngine is the only driver of a fresh FIFOAlgorithm,
\* the scheduler's currentStep never exceeds the engine's
\* stepHistory.length, so neither restoreToStep inside stepBackward nor
\* processPageReference inside stepForward ever fails.
C39_EngineCallsNeverFail ==
    /\ animStep <= Len(stepHistory)
    /\ lastCall.ok
    /\ animStep > 0 => ~restoreThrows(animStep - 1)
    /\ animStep < totalSteps => ~processThrows(animStep)

\* After stepping back and forward again the engine has counted as many
\* faults as its currentStep, with more StepResults than references.
C38_Witness ==
    /\ lastAnimCall.op = "stepForward"
    /\ Len(stepHistory) > Len(pageReferences)
    /\ currentStep >= 2
    /\ faultCount = currentStep
    /\ algorithmState.faultRate = 10000

\* The scheduler has stepped back from the end of a string it had already
\* walked more than once.
C39_Witness ==
    /\ lastAnimCall = [op |-> "stepBackward", result |-> TRUE]
    /\ lastCall.op = "restoreToStep"
    /\ Len(stepHistory) > Len(pageReferences)
    /\ animStep = totalSteps - 1
    /\ animStep >= 1

\* The steps among stepHistory[0 .. n) that replaced a page.
Replacements(n) ==
    {i \in 0..(n - 1) : At(stepHistory, i).replacedFrameIndex # NULL}

\* C40: in a forward-only run on a fresh engine the j-th replacement
\* (counting from 0) overwrites frame j mod frameCount, and restoreToStep(k)
\* rebuilds fifoQueue as the occupied indices in ascending order, which
\* equals the forward-run queue at step k only when the number of
\* replacements up to step k is a multiple of frameCount (and, conversely,
\* whenever it is).
C40_RoundRobinVictims ==
    /\ driver.pc = "forward" =>
          \A i \in Replacements(Len(stepHistory)) :
              At(stepHistory, i).replacedFrameIndex =
                  Cardinality(Replacements(i)) % frameCount
    /\ (driver.pc = "replay" /\ lastCall.op = "restoreToStep") =>
          /\ \A i \in 1..Len(fifoQueue) : At(frames, fifoQueue[i]) # NULL
          /\ \A i, j \in 1..Len(fifoQueue) : i < j => fifoQueue[i] < fifoQueue[j]
          /\ Len(fifoQueue) = Cardinality(OccupiedIndices(frames))
          /\ (fifoQueue = ForwardRun(driver.k + 1).fifoQueue
                <=> Cardinality(Replacements(driver.k + 1)) % frameCount = 0)

\* A restoreToStep to a step of a forward run on two or more frames by which
\* more pages had been replaced than there are frames, their number no
\* multiple of frameCount: the rebuilt queue is not the forward run's.
C40_Witness ==
    /\ driver.pc = "replay"
    /\ lastCall.op = "restoreToStep"
    /\ frameCount >= 2
    /\ Cardinality(Replacements(driver.k + 1)) > frameCount
    /\ Cardinality(Replacements(driver.k + 1)) % frameCount # 0
    /\ fifoQueue # ForwardRun(driver.k + 1).fifoQueue
    /\ At(stepHistory, driver.k).replacedFrameIndex = 0

====
